---------------------------- MODULE Spec2Model ----------------------------
(***************************************************************************)
(* A model of potoo, a static site generator for Obsidian-flavoured        *)
(* Markdown notes:                                                         *)
(*   - generator.parse_input_directory   (the directory walker),           *)
(*   - generator.reorder_children, make_navbar, generate_page, main,       *)
(*   - CustomMDExtension.ObsidianLinkProcessor.run (the link resolver).    *)
(*                                                                         *)
(* Strings are sequences of one-character strings, so that urlize is       *)
(* computed character by character.  A Python dict is a function whose     *)
(* DOMAIN is the set of keys.  Optional[str] values of ElementTree (text,  *)
(* tail) are records [some, s]; None is [some |-> FALSE].                  *)
(***************************************************************************)
EXTENDS Integers, Sequences, FiniteSets, TLC

VARIABLES
    \* ---- parse_input_directory
    scanned,      \* the entries the iterator chain([path], path.glob('**/*')) has yielded
    pages,        \* dict: name -> [src, out]
    navigation,   \* dict: name -> [parent, children]
    media,        \* list of [src, name, out]
    walkStatus,   \* "idle" | "scanning" | "returned" | "SameNameError"
    \* ---- reorder_children called on its own
    roChildren, roMeta, roResult,
    \* ---- ObsidianLinkProcessor.run
    tree,         \* node id -> element: the document run() works on
    origTree,     \* the document as run() was called on it
    cur,          \* the element the outer loop (for parent in root.iter()) is at
    idx,          \* the inner loop's idx
    examined,     \* how many times each element was parent[idx]
    runStatus,    \* "idle" | "running" | "done" | an exception's name
    \* ---- main / generate_page
    strict,       \* config.STRICT
    links,        \* the LinkTable of make_links
    parsed,       \* name -> the metadata parse_markdown returned for the page's file
    stack,        \* the activation records of generate_page
    events,       \* what the run has done so far, in order
    navbars,      \* the navbar built by each call of make_navbar, in order
    genStatus     \* "idle" | "start" | "running" | "done" | an exception's name

walkVars == <<scanned, pages, navigation, media, walkStatus>>
roVars   == <<roChildren, roMeta, roResult>>
runVars  == <<tree, origTree, cur, idx, examined, runStatus>>
genVars  == <<strict, links, parsed, stack, events, navbars, genStatus>>
vars     == <<walkVars, roVars, runVars, genVars>>

-----------------------------------------------------------------------------
(* Bounds *)

\* entries the walker's iterator yields after the root itself
MaxItems == 3
\* entries below the root in the trees generation is run on
MaxGenEntries == 2
\* length of a metadata "children" list
MaxDeclared == 2
\* elements below the root of a document given to the link processor
MaxNodes == 3
MaxSiblings == 3

-----------------------------------------------------------------------------
(* Strings and paths *)

NoneVal == <<"<None>">>

\* Python truthiness of a str-or-None
Truthy(x) == x # NoneVal /\ x # <<>>

Range(s) == {s[i] : i \in DOMAIN s}

\* str.lower on the characters the model uses
Lower(c) == CASE c = "A" -> "a"
              [] c = "B" -> "b"
              [] OTHER   -> c

\* CHAR_WHITELIST = 'a-z0-9-_', on the characters the model uses
CHAR_WHITELIST == {"a", "b", "p", "r", "0", "1", "2", "3", "4", "5", "6", "-", "_"}

urlize(text) ==
    [i \in DOMAIN text |->
        IF Lower(text[i]) \in CHAR_WHITELIST THEN Lower(text[i]) ELSE "_"]

MEDIA_DIRECTORY == "media/"

IndexHtml == <<"i", "n", "d", "e", "x", ".html">>

HtmlPath(stem) == Append(urlize(stem), ".html")

\* every media file of the model has the suffix .png
MediaSuffix == ".png"

MediaName(stem) == Append(stem, MediaSuffix)

MediaPath(stem) == <<MEDIA_DIRECTORY>> \o Append(urlize(stem), MediaSuffix)

\* pathlib's stem of a path: the part before the last "." of the last component
PathStem(path) ==
    IF path # <<>> /\ path[Len(path)] \in {".html", MediaSuffix}
    THEN SubSeq(path, 1, Len(path) - 1) ELSE path

-----------------------------------------------------------------------------
(* parse_input_directory *)

\* An entry of the input tree: its stem, the index in scanned of the
\* directory holding it (0: the root's own parent, the current directory),
\* its kind, and for a directory whether <stem>.md exists inside.
Kinds == {"dir", "md", "media"}

WalkStems == {<<"a">>, <<"A">>, <<"b", " ">>, <<".", "a">>}

StartsWithDot(stem) == stem # <<>> /\ stem[1] = "."

RECURSIVE IsHidden(_, _)
\* any(part.startswith('.') for part in item.parts)
IsHidden(seen, it) ==
    \/ StartsWithDot(it.stem)
    \/ it.parent # 0 /\ IsHidden(seen, seen[it.parent])

\* item.parent.stem
ParentStem(seen, it) == IF it.parent = 0 THEN <<>> ELSE seen[it.parent].stem

\* is_root = len(item.parts) == 1
IsRoot(it) == it.parent = 0

\* navigation[''] = [None, []], pages = {}, media = []
WalkStart ==
    [pages      |-> << >>,
     navigation |-> (<<>> :> [parent |-> NoneVal, children |-> <<>>]),
     media      |-> <<>>,
     status     |-> "scanning"]

Count(seq, x) == Cardinality({i \in DOMAIN seq : seq[i] = x})

PutDict(d, k, v) == [x \in (DOMAIN d) \cup {k} |-> IF x = k THEN v ELSE d[x]]

\* Register with the name looked up among the entry's siblings only
RegisterSiblingsOnly(st, seen, it) ==
    LET par   == ParentStem(seen, it)
        nav1  == [st.navigation EXCEPT ![par].children = Append(@, it.stem)]
    IN  IF Count(st.navigation[par].children, it.stem) > 0
        THEN [st EXCEPT !.navigation = nav1, !.status = "SameNameError"]
        ELSE [st EXCEPT !.navigation =
                 PutDict(nav1, it.stem, [parent |-> par, children |-> <<>>])]

\* Register with the entry's node created under the root key
RegisterUnderRoot(st, seen, it) ==
    LET par   == ParentStem(seen, it)
        nav1  == [st.navigation EXCEPT ![par].children = Append(@, it.stem)]
    IN  IF it.stem \in DOMAIN nav1
        THEN [st EXCEPT !.navigation = nav1, !.status = "SameNameError"]
        ELSE [st EXCEPT !.navigation =
                 PutDict(nav1, it.stem, [parent |-> <<>>, children |-> <<>>])]

\* lines 89-94: the entry is appended to its parent's children, then the
\* name is looked up, then the entry's own node is created
Register(st, seen, it) ==
    LET par   == ParentStem(seen, it)
        nav1  == [st.navigation EXCEPT ![par].children = Append(@, it.stem)]
    IN  IF it.stem \in DOMAIN nav1
        THEN [st EXCEPT !.navigation = nav1, !.status = "SameNameError"]
        ELSE [st EXCEPT !.navigation =
                 PutDict(nav1, it.stem, [parent |-> par, children |-> <<>>])]

\* the body of the loop of parse_input_directory for one entry
LoopBody(st, seen, i) ==
    LET it == seen[i] IN
    IF IsHidden(seen, it) THEN st
    ELSE IF it.kind = "md" THEN
        IF it.stem = ParentStem(seen, it) THEN st
        ELSE Register(
                [st EXCEPT !.pages = PutDict(@, it.stem,
                     [src |-> <<"file", i>>, out |-> HtmlPath(it.stem)])],
                seen, it)
    ELSE IF it.kind = "media" THEN
        [st EXCEPT !.media = Append(@,
             [src |-> i, name |-> MediaName(it.stem), out |-> MediaPath(it.stem)])]
    ELSE Register(
            [st EXCEPT !.pages = PutDict(@, it.stem,
                 [src |-> IF it.desc THEN <<"desc", i>> ELSE NoneVal,
                  out |-> IF IsRoot(it) THEN IndexHtml ELSE HtmlPath(it.stem)])],
            seen, it)

\* the entries the iterator may yield next: the input directory itself
\* first, then entries of directories already yielded
DirIndices(seen) == {j \in DOMAIN seen : seen[j].kind = "dir"}

NextEntries(seen, stems) ==
    IF seen = <<>>
    THEN {[stem |-> s, parent |-> 0, kind |-> "dir", desc |-> d] :
             s \in {x \in stems : ~StartsWithDot(x)}, d \in BOOLEAN}
    ELSE {it \in [stem : stems, parent : DirIndices(seen), kind : Kinds, desc : BOOLEAN] :
             /\ it.kind # "dir" => ~it.desc
             \* a directory holds one file <stem>.md at most
             /\ it.kind = "md" =>
                    \A j \in DOMAIN seen :
                        ~(seen[j].kind = "md" /\ seen[j].parent = it.parent
                          /\ seen[j].stem = it.stem)
             \* <stem>.md is in a directory of that stem iff the directory's
             \* description file exists
             /\ (it.kind = "md" /\ it.stem = seen[it.parent].stem)
                    => seen[it.parent].desc}

-----------------------------------------------------------------------------
(* The parts of the state a specification does not use stay as they are here. *)

NoText == [some |-> FALSE, s |-> <<>>]

IdleWalk ==
    /\ scanned = <<>>
    /\ pages = << >>
    /\ navigation = << >>
    /\ media = <<>>
    /\ walkStatus = "idle"

NoMeta == [has |-> FALSE, children |-> <<>>]

NotCalled == [called |-> FALSE, value |-> <<>>]

IdleRo ==
    /\ roChildren = <<>>
    /\ roMeta = NoMeta
    /\ roResult = NotCalled

IdleRun ==
    /\ tree = << >>
    /\ origTree = << >>
    /\ cur = 0
    /\ idx = 0
    /\ examined = << >>
    /\ runStatus = "idle"

IdleGenRun ==
    /\ parsed = << >>
    /\ stack = <<>>
    /\ events = <<>>
    /\ navbars = <<>>
    /\ genStatus = "idle"

IdleGen ==
    /\ strict = FALSE
    /\ links = << >>
    /\ IdleGenRun

-----------------------------------------------------------------------------
(* Specification SpecWalk: one call of parse_input_directory *)

InitWalk ==
    /\ scanned = <<>>
    /\ pages = WalkStart.pages
    /\ navigation = WalkStart.navigation
    /\ media = WalkStart.media
    /\ walkStatus = WalkStart.status
    /\ IdleRo /\ IdleRun /\ IdleGen

\* one iteration of "for item in chain([path], path.glob('**/*'))"
Scan ==
    /\ walkStatus = "scanning"
    /\ Len(scanned) < MaxItems + 1
    /\ \E it \in NextEntries(scanned, WalkStems) :
          LET seen == Append(scanned, it)
              st   == LoopBody([pages |-> pages, navigation |-> navigation,
                                media |-> media, status |-> walkStatus],
                               seen, Len(seen))
          IN  /\ scanned' = seen
              /\ pages' = st.pages
              /\ navigation' = st.navigation
              /\ media' = st.media
              /\ walkStatus' = st.status
    /\ UNCHANGED <<roVars, runVars, genVars>>

\* the iterator is exhausted: return pages, navigation, media
Return ==
    /\ walkStatus = "scanning"
    /\ scanned # <<>>
    /\ walkStatus' = "returned"
    /\ UNCHANGED <<scanned, pages, navigation, media, roVars, runVars, genVars>>

NextWalk == Scan \/ Return

SpecWalk == InitWalk /\ [][NextWalk]_vars

-----------------------------------------------------------------------------
(* make_links *)

RECURSIVE AddMediaLinks(_, _)
\* for src, dst in media: links[src.name] = dst
AddMediaLinks(table, rest) ==
    IF rest = <<>> THEN table
    ELSE AddMediaLinks(PutDict(table, Head(rest).name, Head(rest).out), Tail(rest))

make_links(pgs, med) ==
    AddMediaLinks([name \in DOMAIN pgs |-> pgs[name].out], med)

-----------------------------------------------------------------------------
(* Claims about parse_input_directory, under SpecWalk *)

\* the entries of the input tree that are directories or markdown files other
\* than a directory's description file, outside hidden paths
RegisteredEntries ==
    {i \in DOMAIN scanned :
        /\ ~IsHidden(scanned, scanned[i])
        /\ \/ scanned[i].kind = "dir"
           \/ scanned[i].kind = "md"
              /\ scanned[i].stem # ParentStem(scanned, scanned[i])}

DuplicatePairs ==
    {pr \in RegisteredEntries \X RegisteredEntries :
        pr[1] < pr[2] /\ scanned[pr[1]].stem = scanned[pr[2]].stem}

RECURSIVE Depth(_)
Depth(i) == IF scanned[i].parent = 0 THEN 0 ELSE 1 + Depth(scanned[i].parent)

RECURSIVE IsAncestor(_, _)
IsAncestor(i, j) ==
    /\ scanned[j].parent # 0
    /\ (scanned[j].parent = i \/ IsAncestor(i, scanned[j].parent))

\* C1: once two registered entries of the scanned tree (directories or
\* non-description markdown files outside hidden paths) have the same stem,
\* whatever their depths and branches, parse_input_directory has raised
\* SameNameError, and it never returns.
C1_DuplicateRaises ==
    DuplicatePairs # {} => walkStatus = "SameNameError"

\* SameNameError was raised for two entries of the same name at different
\* depths, neither inside the other
C1_Witness ==
    /\ walkStatus = "SameNameError"
    /\ \E pr \in DuplicatePairs :
          /\ Depth(pr[1]) # Depth(pr[2])
          /\ ~IsAncestor(pr[1], pr[2])
          /\ ~IsAncestor(pr[2], pr[1])

RECURSIVE ReachesRoot(_, _, _)
\* following parent entries from k reaches '' in at most fuel steps
ReachesRoot(nav, k, fuel) ==
    \/ k = <<>>
    \/ /\ fuel > 0
       /\ k \in DOMAIN nav
       /\ ReachesRoot(nav, nav[k].parent, fuel - 1)

NavIsTree(nav) ==
    /\ <<>> \in DOMAIN nav
    /\ nav[<<>>].parent = NoneVal
    /\ \A k \in DOMAIN nav \ {<<>>} :
          /\ nav[k].parent \in DOMAIN nav
          /\ Count(nav[nav[k].parent].children, k) = 1
          /\ \A q \in DOMAIN nav \ {nav[k].parent} : Count(nav[q].children, k) = 0
          /\ ReachesRoot(nav, k, Cardinality(DOMAIN nav))
    /\ \A q \in DOMAIN nav : Range(nav[q].children) \subseteq DOMAIN nav \ {<<>>}

\* C2: when parse_input_directory returns for a tree with unique names, the
\* navigation table is a tree rooted at '' (every other key has its parent in
\* the table, is listed once by that parent and by no other key, and reaches
\* '' by parent entries), and the keys of pages are the navigation keys other
\* than '', one per registered entry.
C2_NavigationIsTree ==
    (walkStatus = "returned" /\ DuplicatePairs = {}) =>
        /\ NavIsTree(navigation)
        /\ DOMAIN pages = DOMAIN navigation \ {<<>>}
        /\ DOMAIN pages = {scanned[i].stem : i \in RegisteredEntries}
        /\ Cardinality(DOMAIN pages) = Cardinality(RegisteredEntries)

\* a returned table with a page two levels below the root, from a tree that
\* also holds an entry that is no page
C2_Witness ==
    /\ walkStatus = "returned"
    /\ DuplicatePairs = {}
    /\ \E k \in DOMAIN navigation \ {<<>>} :
          /\ Truthy(navigation[k].parent)
          /\ Truthy(navigation[navigation[k].parent].parent)
    /\ RegisteredEntries # DOMAIN scanned

\* C10: when parse_input_directory returns, the LinkTable of make_links maps
\* distinct page names to distinct output paths, and exactly one page has the
\* output path index.html.
C10_DistinctOutputs ==
    walkStatus = "returned" =>
        LET table == make_links(pages, media) IN
        /\ \A m, n \in DOMAIN pages : m # n => table[m] # table[n]
        /\ Cardinality({n \in DOMAIN pages : table[n] = IndexHtml}) = 1

-----------------------------------------------------------------------------
(* reorder_children *)

Digits == <<"1", "2", "3", "4", "5", "6">>

\* the names of the pages below the root: p1, p2, ...
PageStem(i) == <<"p", Digits[i]>>

\* a name in a metadata "children" list that is no page: the empty line
Bogus == <<>>

\* the sequences that list every element of S once
Orderings(S) == {f \in [1..Cardinality(S) -> S] : Range(f) = S}

SeqsUpTo(S, n) == UNION {[1..k -> S] : k \in 0..n}

\* The metadata of a page, as far as reorder_children reads it: whether it
\* has a "children" entry, and the entry.
\*
\* rest is a Python set of str: list(rest) enumerates it in the order of the
\* hash table, which depends on the hash seed of the process and on the order
\* of insertion; any order can come out.
reorder_children(children, meta) ==
    IF ~meta.has THEN {children}
    ELSE LET parsed_children == meta.children
             rest      == Range(children) \ Range(parsed_children)
             new_order == SelectSeq(parsed_children,
                                    LAMBDA child : child \in Range(children))
         IN  {new_order \o tail : tail \in Orderings(rest)}

-----------------------------------------------------------------------------
(* Specification SpecReorder: one call of reorder_children *)

RoNames == {PageStem(1), PageStem(2), PageStem(3)}

\* children lists as the walker builds them: no name twice
RoChildrenLists == UNION {Orderings(S) : S \in SUBSET RoNames}

RoMetas ==
    {NoMeta} \cup
    {[has |-> TRUE, children |-> d] : d \in SeqsUpTo(RoNames \cup {Bogus}, MaxDeclared)}

InitReorder ==
    /\ roChildren \in RoChildrenLists
    /\ roMeta \in RoMetas
    /\ roResult = NotCalled
    /\ IdleWalk /\ IdleRun /\ IdleGen

CallReorder ==
    /\ ~roResult.called
    /\ \E res \in reorder_children(roChildren, roMeta) :
          roResult' = [called |-> TRUE, value |-> res]
    /\ UNCHANGED <<roChildren, roMeta, walkVars, runVars, genVars>>

NextReorder == CallReorder

SpecReorder == InitReorder /\ [][NextReorder]_vars

\* a sequence without its repeated elements (the first occurrence stays)
RECURSIVE Dedup(_)
Dedup(seq) ==
    IF seq = <<>> THEN <<>>
    ELSE LET front == Dedup(SubSeq(seq, 1, Len(seq) - 1))
             last  == seq[Len(seq)]
         IN  IF last \in Range(front) THEN front ELSE Append(front, last)

\* the order the claim describes
DeclaredThenScanOrder(children, meta) ==
    IF ~meta.has THEN children
    ELSE Dedup(SelectSeq(meta.children, LAMBDA c : c \in Range(children)))
         \o SelectSeq(children, LAMBDA c : c \notin Range(meta.children))

\* C3: reorder_children returns the declared children that are actual
\* children, in declared order, then the remaining actual children in scan
\* order; no child twice, none dropped.
C3_DeclaredThenScanOrder ==
    roResult.called =>
        /\ roResult.value = DeclaredThenScanOrder(roChildren, roMeta)
        /\ \A c \in Range(roChildren) : Count(roResult.value, c) = 1
        /\ Range(roResult.value) = Range(roChildren)

-----------------------------------------------------------------------------
(* ObsidianLinkProcessor.run *)

\* An element: its tag, its href or src (a, img), the src of each source
\* child (video), its class attribute, text, tail and children (ids).
Str(chars) == [some |-> TRUE, s |-> chars]

\* Python truthiness of an Optional[str]
TruthyText(t) == t.some /\ t.s # <<>>

\* href.startswith('http')
External(ref) == Len(ref) >= 4 /\ SubSeq(ref, 1, 4) = <<"h", "t", "t", "p">>

RootStem == <<"r">>

KnownRef == RootStem

MissingRef == <<"m">>

ExternalRef == <<"h", "t", "t", "p", "s">>

Element(tag, ref, sources, text, tail) ==
    [tag |-> tag, ref |-> ref, sources |-> sources, cls |-> "",
     text |-> text, tail |-> tail, children |-> <<>>]

IndexOf(seq, x) == CHOOSE i \in DOMAIN seq : seq[i] = x /\ \A j \in 1..(i - 1) : seq[j] # x

RemoveAt(seq, k) == SubSeq(seq, 1, k - 1) \o SubSeq(seq, k + 1, Len(seq))

\* the element whose children hold n
ParentOf(t, n) == CHOOSE q \in DOMAIN t : n \in Range(t[q].children)

RECURSIVE AfterSubtree(_, _)
\* the element that follows the subtree of n in document order, -1 if none
AfterSubtree(t, n) ==
    IF n = 0 THEN -1
    ELSE LET q    == ParentOf(t, n)
             kids == t[q].children
             k    == IndexOf(kids, n)
         IN  IF k < Len(kids) THEN kids[k + 1] ELSE AfterSubtree(t, q)

\* the element root.iter() yields after n: the iterator reads the children of
\* n only when it is asked for the next element
IterNext(t, n) ==
    IF t[n].children # <<>> THEN t[n].children[1] ELSE AfterSubtree(t, n)

\* warnings.warn(target, UnknownLocalLinkWarning): raises under the filter
\* "error" (config.STRICT), prints under "default"
Raise(s, exception) == [s EXCEPT !.status = exception]

\* parent.remove(element); idx -= 1
RemoveElement(s, e) ==
    LET kids == s.tree[s.cur].children IN
    IF e \notin Range(kids) THEN Raise(s, "ValueError")
    ELSE [s EXCEPT !.tree[s.cur].children = RemoveAt(kids, IndexOf(kids, e)),
                   !.idx = s.idx - 1]

\* lines 120-137: the text of a removed anchor goes to the parent's text or
\* to the tail of the previous sibling
SpliceAnchor(s, e) ==
    LET el == s.tree[e] IN
    IF TruthyText(el.tail) /\ ~el.text.some
    THEN Raise(s, "TypeError")                         \* None += str
    ELSE
    LET text == IF TruthyText(el.tail) THEN Str(el.text.s \o el.tail.s) ELSE el.text
    IN  IF s.idx = 0
        THEN LET old == s.tree[s.cur].text
                 s1  == IF ~TruthyText(old)
                        THEN [s EXCEPT !.tree[s.cur].text = Str(<<>>)] ELSE s
             IN  IF ~text.some THEN Raise(s1, "TypeError")      \* str += None
                 ELSE RemoveElement(
                        [s1 EXCEPT !.tree[s.cur].text = Str(@.s \o text.s)], e)
        ELSE LET previous == s.tree[s.cur].children[s.idx]
                 old == s.tree[previous].tail
                 s1  == IF ~TruthyText(old)
                        THEN [s EXCEPT !.tree[previous].tail = Str(<<>>)] ELSE s
             IN  IF ~text.some THEN Raise(s1, "TypeError")
                 ELSE RemoveElement(
                        [s1 EXCEPT !.tree[previous].tail = Str(@.s \o text.s)], e)

\* lines 110-140
ProcessAnchor(s, e, lk, st) ==
    LET href == s.tree[e].ref IN
    IF External(href) THEN [s EXCEPT !.tree[e].cls = "outgoing"]
    ELSE IF href \in DOMAIN lk THEN [s EXCEPT !.tree[e].ref = lk[href]]
    ELSE IF st THEN Raise(s, "UnknownLocalLinkWarning")
    ELSE SpliceAnchor(s, e)

\* lines 141-152
ProcessImage(s, e, lk, st) ==
    LET src == s.tree[e].ref IN
    IF External(src) THEN s
    ELSE IF src \in DOMAIN lk THEN [s EXCEPT !.tree[e].ref = lk[src]]
    ELSE IF st THEN Raise(s, "UnknownLocalLinkWarning")
    ELSE RemoveElement(s, e)

RECURSIVE ProcessVideo(_, _, _, _, _)
\* lines 154-166: "for source in element", from the j-th source on
ProcessVideo(s, e, j, lk, st) ==
    IF j > Len(s.tree[e].sources) \/ s.status # "running" THEN s
    ELSE LET src == s.tree[e].sources[j] IN
         IF External(src) THEN ProcessVideo(s, e, j + 1, lk, st)
         ELSE IF src \in DOMAIN lk
         THEN ProcessVideo([s EXCEPT !.tree[e].sources[j] = lk[src]], e, j + 1, lk, st)
         ELSE IF st THEN Raise(s, "UnknownLocalLinkWarning")
         ELSE ProcessVideo(RemoveElement(s, e), e, j + 1, lk, st)

\* one iteration of "while idx < len(parent)"
ProcessChildStep(s, lk, st) ==
    LET e  == s.tree[s.cur].children[s.idx + 1]
        s0 == [s EXCEPT !.examined[e] = @ + 1]
        s1 == CASE s.tree[e].tag = "a"     -> ProcessAnchor(s0, e, lk, st)
                [] s.tree[e].tag = "img"   -> ProcessImage(s0, e, lk, st)
                [] s.tree[e].tag = "video" -> ProcessVideo(s0, e, 1, lk, st)
                [] OTHER                   -> s0
    IN  IF s1.status # "running" THEN s1 ELSE [s1 EXCEPT !.idx = @ + 1]

\* the inner loop is over: the next "for parent in root.iter()", or the end
NextParentStep(s) ==
    LET n == IterNext(s.tree, s.cur) IN
    IF n = -1 THEN [s EXCEPT !.status = "done"]
    ELSE [s EXCEPT !.cur = n, !.idx = 0]

InnerLoopRuns(s) == s.idx < Len(s.tree[s.cur].children)

RunStart(t) ==
    [tree |-> t, cur |-> 0, idx |-> 0, status |-> "running",
     examined |-> [n \in DOMAIN t |-> 0]]

RECURSIVE RunToEnd(_, _, _)
\* run(root), to its return or to the exception that leaves it
RunToEnd(s, lk, st) ==
    IF s.status # "running" THEN s
    ELSE IF InnerLoopRuns(s) THEN RunToEnd(ProcessChildStep(s, lk, st), lk, st)
    ELSE RunToEnd(NextParentStep(s), lk, st)

-----------------------------------------------------------------------------
(* Specification SpecResolve: one call of run on a document *)

TextTok(i) == <<"t", Digits[i + 1]>>

TailTok(i) == <<"u", Digits[i + 1]>>

\* the elements the document's i-th node can be
ElementsFor(i) ==
    {Element("a", MissingRef, <<>>, x, y) :
        x \in {NoText, Str(TextTok(i))}, y \in {NoText, Str(TailTok(i))}}
    \cup {Element("a", KnownRef, <<>>, Str(TextTok(i)), Str(TailTok(i))),
          Element("a", ExternalRef, <<>>, Str(TextTok(i)), NoText),
          Element("img", KnownRef, <<>>, NoText, Str(TailTok(i))),
          Element("img", MissingRef, <<>>, NoText, NoText),
          Element("img", ExternalRef, <<>>, NoText, NoText),
          \* ObsidianImagePattern gives a video one source child
          Element("video", <<>>, <<KnownRef>>, NoText, NoText),
          Element("video", <<>>, <<MissingRef>>, NoText, NoText),
          Element("p", <<>>, <<>>, Str(TextTok(i)), NoText)}

RootElements == {Element("div", <<>>, <<>>, x, NoText) : x \in {NoText, Str(TextTok(0))}}

\* t with the element el added as node k, last child of q
AddNode(t, k, el, q) ==
    [n \in (DOMAIN t) \cup {k} |->
        IF n = k THEN el
        ELSE IF n = q THEN [t[n] EXCEPT !.children = Append(@, k)]
        ELSE t[n]]

RECURSIVE DocTrees(_)
\* the documents of k elements below the root
DocTrees(k) ==
    IF k = 0 THEN {(0 :> el) : el \in RootElements}
    ELSE UNION {{AddNode(t, k, el, q) :
                    el \in ElementsFor(k),
                    q \in {n \in DOMAIN t : t[n].tag \in {"div", "p", "a"}}} :
                t \in DocTrees(k - 1)}

ResolveLinks == (KnownRef :> IndexHtml)

RunState ==
    [tree |-> tree, cur |-> cur, idx |-> idx, status |-> runStatus,
     examined |-> examined]

SetRunState(s) ==
    /\ tree' = s.tree
    /\ cur' = s.cur
    /\ idx' = s.idx
    /\ runStatus' = s.status
    /\ examined' = s.examined

InitResolve ==
    /\ tree \in UNION {DocTrees(k) : k \in 1..MaxNodes}
    /\ origTree = tree
    /\ cur = 0
    /\ idx = 0
    /\ examined = [n \in DOMAIN tree |-> 0]
    /\ runStatus = "running"
    /\ strict \in BOOLEAN
    /\ links = ResolveLinks
    /\ IdleWalk /\ IdleRo /\ IdleGenRun

ProcessChild ==
    /\ runStatus = "running"
    /\ InnerLoopRuns(RunState)
    /\ SetRunState(ProcessChildStep(RunState, links, strict))
    /\ UNCHANGED <<origTree, strict, links, parsed, stack,
                   events, navbars, genStatus, walkVars, roVars>>

NextParent ==
    /\ runStatus = "running"
    /\ ~InnerLoopRuns(RunState)
    /\ SetRunState(NextParentStep(RunState))
    /\ UNCHANGED <<origTree, strict, links, parsed, stack,
                   events, navbars, genStatus, walkVars, roVars>>

NextResolve == ProcessChild \/ NextParent

SpecResolve == InitResolve /\ [][NextResolve]_vars

-----------------------------------------------------------------------------
(* Claims about ObsidianLinkProcessor.run, under SpecResolve *)

Chars(t) == IF t.some THEN t.s ELSE <<>>

RECURSIVE ChildrenText(_, _)
ChildrenText(t, kids) ==
    IF kids = <<>> THEN <<>>
    ELSE Chars(t[Head(kids)].text) \o Chars(t[Head(kids)].tail)
         \o ChildrenText(t, Tail(kids))

\* the text of q, then the text and the tail of each child of q
ShallowText(t, q) == Chars(t[q].text) \o ChildrenText(t, t[q].children)

\* the element the inner loop is about to process
AtElement == tree[cur].children[idx + 1]

MeetsUnresolvedAnchor ==
    /\ runStatus = "running"
    /\ InnerLoopRuns(RunState)
    /\ tree[AtElement].tag = "a"
    /\ ~External(tree[AtElement].ref)
    /\ tree[AtElement].ref \notin DOMAIN links

\* C4: in lenient mode, when run meets an anchor whose non-external href is
\* not in the LinkTable, the anchor is removed, its text followed by its tail
\* is appended to the previous sibling's tail (to the parent's text for a
\* first child), and the text of the parent, read in document order over its
\* own text and its children's text and tail, is unchanged.
C4_SplicePreservesText ==
    [][(MeetsUnresolvedAnchor /\ ~strict) =>
          LET e     == AtElement
              moved == Chars(tree[e].text) \o Chars(tree[e].tail)
          IN  /\ runStatus' = "running"
              /\ e \notin Range(tree'[cur].children)
              /\ IF idx = 0
                 THEN Chars(tree'[cur].text) = Chars(tree[cur].text) \o moved
                 ELSE LET previous == tree[cur].children[idx]
                      IN  Chars(tree'[previous].tail)
                            = Chars(tree[previous].tail) \o moved
              /\ ShallowText(tree', cur) = ShallowText(tree, cur)]_vars

RECURSIVE Below(_, _)
\* the elements of the subtree of n
Below(t, n) == {n} \cup UNION {Below(t, t[n].children[i]) : i \in DOMAIN t[n].children}

Inspected == {"a", "img", "video"}

\* the target of an anchor, an image or a video
Target(el) == IF el.tag = "video" THEN el.sources[1] ELSE el.ref

\* C7: when run has completed in lenient mode, every anchor, image and video
\* of the document was examined exactly once; those whose non-external target
\* was not in the LinkTable are gone, and those whose target was a key are
\* still in the document, with the mapped output path as href or src.
C7_EveryElementResolved ==
    (runStatus = "done" /\ ~strict) =>
        \A n \in Below(origTree, 0) :
            origTree[n].tag \in Inspected =>
                /\ examined[n] = 1
                /\ (~External(Target(origTree[n])) /\ Target(origTree[n]) \notin DOMAIN links)
                       => n \notin Below(tree, 0)
                /\ Target(origTree[n]) \in DOMAIN links
                       => /\ n \in Below(tree, 0)
                          /\ Target(tree[n]) = links[Target(origTree[n])]

-----------------------------------------------------------------------------
(* make_navbar, generate_page, main *)

\* config.INPUT_DIRECTORY: the directory main is called on
INPUT_DIRECTORY == RootStem

RECURSIVE WalkFrom(_, _, _)
WalkFrom(st, seen, i) ==
    IF i > Len(seen) \/ st.status # "scanning" THEN st
    ELSE WalkFrom(LoopBody(st, seen, i), seen, i + 1)

\* parse_input_directory on a whole input tree
parse_input_directory(seen) ==
    LET st == WalkFrom(WalkStart, seen, 1)
    IN  [st EXCEPT !.status = IF @ = "scanning" THEN "returned" ELSE @]

RECURSIVE AncestorRows(_, _)
\* lines 148-157: the rows of the ancestors' siblings, from curr_ancestor up;
\* each row is put before the rows found so far
AncestorRows(nav, curr_ancestor) ==
    IF ~(Truthy(curr_ancestor) /\ curr_ancestor # INPUT_DIRECTORY) THEN <<>>
    ELSE LET grandparent == nav[curr_ancestor].parent
             row == IF Truthy(grandparent)
                    THEN [i \in DOMAIN nav[grandparent].children |->
                            [name   |-> nav[grandparent].children[i],
                             active |-> nav[grandparent].children[i] = curr_ancestor]]
                    ELSE <<>>
         IN  AncestorRows(nav, grandparent) \o <<row>>

\* reorder_children on a list that an earlier call with the same metadata
\* returned.  list(rest) gives the names of a set in the order of their slots
\* in its hash table: fewer than three names come out as they went in, three
\* names or more in any order.
reorder_again(children, meta) ==
    {c \in reorder_children(children, meta) :
        Cardinality(Range(children)) < 3 => c = children}

\* make_navbar: the navigation table it leaves and the rows of the navbar it
\* returns, for each order reorder_children can give; again: the page was
\* generated before, and its children are in the order written back then
make_navbar(name, meta, nav, again) ==
    LET parent    == nav[name].parent
        children  == nav[name].children
        siblings  == IF Truthy(parent) THEN nav[parent].children ELSE <<>>
        ancestors == IF Truthy(parent) THEN AncestorRows(nav, parent) ELSE <<>>
    IN  IF children # <<>>
        THEN {[navigation |-> [nav EXCEPT ![name].children = c],
               bar |-> [name |-> name, ancestors |-> ancestors,
                        siblings |-> siblings, children |-> c]] :
                 c \in IF again THEN reorder_again(children, meta)
                       ELSE reorder_children(children, meta)}
        ELSE {[navigation |-> nav,
               bar |-> [name |-> name, ancestors |-> ancestors,
                        siblings |-> siblings, children |-> children]]}

\* what the run did, in order: a page's children listing made, its output
\* written, its summary returned, an exception raised while it was parsed
Event(type, name, order) == [type |-> type, name |-> name, order |-> order]

\* root_page: the page whose output path has the stem "index"
RootPage(pgs) ==
    CHOOSE name \in DOMAIN pgs : PathStem(pgs[name].out) = PathStem(IndexHtml)

\* the documents of the pages' markdown files, as the Markdown parser hands
\* them to the link processor
DocWith(el) == AddNode((0 :> Element("div", <<>>, <<>>, NoText, NoText)), 1, el, 0)

CleanDoc ==
    AddNode(AddNode(DocWith(Element("p", <<>>, <<>>, Str(TextTok(1)), NoText)),
                    2, Element("a", KnownRef, <<>>, Str(TextTok(2)), Str(TailTok(2))), 1),
            3, Element("a", ExternalRef, <<>>, Str(TextTok(3)), NoText), 1)

\* the documents with a reference that is not in the LinkTable
FaultyDocs ==
    { \* [[Missing]] in a paragraph
      AddNode(DocWith(Element("p", <<>>, <<>>, Str(TextTok(1)), NoText)),
              2, Element("a", MissingRef, <<>>, Str(TextTok(2)), Str(TailTok(2))), 1),
      \* [![alt](r)](Missing): the anchor has an image and no text
      AddNode(AddNode(DocWith(Element("p", <<>>, <<>>, NoText, NoText)),
                      2, Element("a", MissingRef, <<>>, NoText, NoText), 1),
              3, Element("img", KnownRef, <<>>, NoText, NoText), 2),
      \* ![[Missing.png]]
      AddNode(DocWith(Element("p", <<>>, <<>>, NoText, NoText)),
              2, Element("img", MissingRef, <<>>, NoText, Str(TailTok(2))), 1),
      \* ![[Missing.mp4]]
      AddNode(DocWith(Element("p", <<>>, <<>>, NoText, NoText)),
              2, Element("video", <<>>, <<MissingRef>>, NoText, NoText), 1) }

Documents == {CleanDoc} \cup FaultyDocs

\* the "children" lists a page's metadata can hold: names of its children,
\* or a name that is no child of it
DeclaredLists(children) ==
    (SeqsUpTo(Range(children), MaxDeclared) \ {<<>>}) \cup {<<Bogus>>}

\* The metadata parse_markdown can return for a page's file.  The file is
\* the same at every parse: parsed keeps what was read, for the pages whose
\* metadata reorder_children can tell apart (those with children).
MetaChoices(name) ==
    {NoMeta} \cup
    {[has |-> TRUE, children |-> d] : d \in DeclaredLists(navigation[name].children)}

MetaFor(name) ==
    IF pages[name].src = NoneVal THEN {NoMeta}
    ELSE IF name \in DOMAIN parsed THEN {parsed[name]}
    ELSE MetaChoices(name)

Remember(table, name, meta) ==
    IF pages[name].src # NoneVal /\ navigation[name].children # <<>>
    THEN PutDict(table, name, meta) ELSE table

\* a loop that is left after its first round
LoopFinishedAfterFirst(frame) == frame.next > 1 \/ frame.children = <<>>

\* the loop "for child in children" of generate_page is over
LoopFinished(frame) == frame.next > Len(frame.children)

-----------------------------------------------------------------------------
(* Specification SpecGen: main, after parse_input_directory has returned *)

RECURSIVE GenTrees(_)
\* the input trees of k entries below the root: directories and markdown
\* files of distinct names
GenTrees(k) ==
    IF k = 0 THEN {<<it>> : it \in NextEntries(<<>>, {RootStem})}
    ELSE UNION {{Append(t, it) :
                    it \in {x \in NextEntries(t, {PageStem(k)}) : x.kind # "media"}} :
                t \in GenTrees(k - 1)}

\* main starts on one of the input trees
GenStart(trees) ==
    /\ scanned \in trees
    /\ pages = parse_input_directory(scanned).pages
    /\ navigation = parse_input_directory(scanned).navigation
    /\ media = parse_input_directory(scanned).media
    /\ walkStatus = parse_input_directory(scanned).status
    /\ strict \in BOOLEAN
    /\ links = << >>
    /\ parsed = << >>
    /\ stack = <<>>
    /\ events = <<>>
    /\ navbars = <<>>
    /\ genStatus = "start"
    /\ IdleRo /\ IdleRun

InitGen == GenStart(UNION {GenTrees(k) : k \in 1..MaxGenEntries})

\* generate_page got as far as make_navbar for the page before
Generated(name) == \E i \in DOMAIN navbars : navbars[i].name = name

\* generate_page(name, ...) up to its loop over the children: lines 224-273.
\* The page's file holds any of Documents, the same at every parse; a
\* document that run() gets through without exception leaves nothing behind
\* but the HTML, which is not kept.
Enter(name, lk) ==
    \/ /\ pages[name].src # NoneVal
       /\ ~Generated(name)
       /\ \E doc \in Documents :
             LET run == RunToEnd(RunStart(doc), lk, strict) IN
             /\ run.status # "done"
             /\ SetRunState(run)
             /\ origTree' = doc
             /\ genStatus' = run.status
             /\ events' = Append(events, Event("raise", name, <<>>))
       /\ UNCHANGED <<navigation, parsed, stack, navbars>>
    \/ /\ pages[name].src # NoneVal =>
             \E doc \in Documents : RunToEnd(RunStart(doc), lk, strict).status = "done"
       /\ \E meta \in MetaFor(name) :
             \E nb \in make_navbar(name, meta, navigation, Generated(name)) :
                \E children \in reorder_again(nb.navigation[name].children, meta) :
                   /\ navigation' = nb.navigation
                   /\ navbars' = Append(navbars, nb.bar)
                   /\ parsed' = Remember(parsed, name, meta)
                   /\ stack' = Append(stack,
                          [name |-> name, children |-> children, next |-> 1,
                           children_meta |-> <<>>])
       /\ genStatus' = "running"
       /\ UNCHANGED <<events, runVars>>

\* main: make_links, then generate_page(root_page)
Main ==
    /\ genStatus = "start"
    /\ links' = make_links(pages, media)
    /\ Enter(RootPage(pages), links')
    /\ UNCHANGED <<scanned, pages, media, walkStatus, roVars, strict>>

\* the recursive call generate_page(child, ...) of line 276
Recurse ==
    /\ genStatus = "running"
    /\ stack # <<>>
    /\ ~LoopFinished(stack[Len(stack)])
    /\ Enter(stack[Len(stack)].children[stack[Len(stack)].next], links)
    /\ UNCHANGED <<scanned, pages, media, walkStatus, roVars, strict, links>>

\* lines 280-301: the children listing, write_html, and the return of the
\* page's summary to the caller
FinishPage ==
    /\ genStatus = "running"
    /\ stack # <<>>
    /\ LET frame == stack[Len(stack)]
           rest  == SubSeq(stack, 1, Len(stack) - 1)
       IN  /\ LoopFinished(frame)
           /\ events' = events
                  \o (IF frame.children # <<>>
                      THEN <<Event("listing", frame.name, frame.children_meta)>>
                      ELSE <<>>)
                  \o <<Event("write", frame.name, <<>>), Event("return", frame.name, <<>>)>>
           /\ IF rest = <<>>
              THEN stack' = <<>> /\ genStatus' = "done"
              ELSE /\ stack' = [rest EXCEPT ![Len(rest)].children_meta = Append(@, frame.name),
                                            ![Len(rest)].next = @ + 1]
                   /\ UNCHANGED genStatus
    /\ UNCHANGED <<walkVars, roVars, runVars, strict, links, parsed, navbars>>

NextGen == Main \/ Recurse \/ FinishPage

SpecGen == InitGen /\ [][NextGen]_vars

(* Specification SpecSiblings: main on a root directory of MaxSiblings pages *)

InitSiblings ==
    GenStart({t \in GenTrees(MaxSiblings) : \A i \in 2..Len(t) : t[i].parent = 1})

SpecSiblings == InitSiblings /\ [][NextGen]_vars

-----------------------------------------------------------------------------
(* Claims about main *)

Aborts == {"UnknownLocalLinkWarning", "TypeError", "ValueError"}

\* C5: with strict enabled, the first link, image or video whose non-external
\* target is not in the LinkTable aborts the whole run: the exception is
\* raised with that element still in the document as it was, and nothing is
\* written after it; with strict disabled no document with such an element
\* aborts the run.
C5_StrictAbortsLenientNever ==
    /\ genStatus = "UnknownLocalLinkWarning" =>
           /\ strict
           /\ AtElement \in Below(tree, 0)
           /\ tree[AtElement] = origTree[AtElement]
    /\ genStatus \in Aborts =>
           /\ events # <<>>
           /\ events[Len(events)].type = "raise"
    /\ strict =>
           \A doc \in FaultyDocs :
               RunToEnd(RunStart(doc), make_links(pages, media), strict).status
                   = "UnknownLocalLinkWarning"
    /\ ~strict => genStatus \notin Aborts

RECURSIVE OnPath(_, _, _, _)
\* a is name, or an ancestor of name within fuel steps
OnPath(nav, a, name, fuel) ==
    \/ a = name
    \/ /\ fuel > 0
       /\ Truthy(nav[name].parent)
       /\ OnPath(nav, a, nav[name].parent, fuel - 1)

\* C6: every ancestor-sibling row of every navbar make_navbar has built has
\* exactly one entry tagged active, and that entry is an ancestor of the
\* navbar's page.
C6_OneActivePerRow ==
    \A i \in DOMAIN navbars :
        \A r \in DOMAIN navbars[i].ancestors :
            LET row == navbars[i].ancestors[r] IN
            /\ Cardinality({k \in DOMAIN row : row[k].active}) = 1
            /\ \A k \in DOMAIN row :
                   row[k].active =>
                       /\ row[k].name # navbars[i].name
                       /\ OnPath(navigation, row[k].name, navbars[i].name,
                                 Cardinality(DOMAIN navigation))

\* descendant is below page in the navigation table
IsDescendant(descendant, page) ==
    /\ descendant # page
    /\ OnPath(navigation, page, descendant, Cardinality(DOMAIN navigation))

Before(e, type, name) ==
    \E f \in 1..(e - 1) : events[f].type = type /\ events[f].name = name

\* C8: a page's output is written only after the output of each of its
\* descendants was written, and its children listing and its output are made
\* only after each of its children has returned its summary.
C8_PostOrder ==
    \A e \in DOMAIN events :
        /\ events[e].type = "write" =>
               \A d \in DOMAIN pages :
                   IsDescendant(d, events[e].name) => Before(e, "write", d)
        /\ events[e].type \in {"listing", "write"} =>
               \A c \in Range(navigation[events[e].name].children) :
                   Before(e, "return", c)
        /\ events[e].type = "listing" =>
               Range(events[e].order) = Range(navigation[events[e].name].children)

\* the run is over and has written a page two levels below the root
C8_Witness ==
    /\ genStatus = "done"
    /\ \E e \in DOMAIN events :
           /\ events[e].type = "write"
           /\ Truthy(navigation[events[e].name].parent)
           /\ navigation[events[e].name].parent # INPUT_DIRECTORY

\* navbar i is the last one built for its page
LastNavbar(i, name) ==
    /\ navbars[i].name = name
    /\ \A j \in DOMAIN navbars : j > i => navbars[j].name # name

\* C9: the children order make_navbar wrote into the navigation table is the
\* order of every later use: the page's navbar child row, the recursive
\* generation and the children listing of generate_page (the listing is in
\* the order of the recursion), and the sibling row of each child's navbar.
C9_OneChildrenOrder ==
    /\ \A i \in DOMAIN stack :
           stack[i].children = navigation[stack[i].name].children
    /\ \A i \in DOMAIN navbars :
           LET name   == navbars[i].name
               parent == navigation[name].parent
           IN  /\ LastNavbar(i, name) =>
                      navbars[i].children = navigation[name].children
               /\ (Truthy(parent) /\ \A j \in DOMAIN navbars : j > i => navbars[j].name # parent)
                      => navbars[i].siblings = navigation[parent].children

====
